---- MODULE Spec2Model ----
(***************************************************************************)
(* State-machine model of the NATS JWT Terraform provider resources        *)
(* (nsc_user, nsc_operator, nsc_account): the Create / Update / Delete     *)
(* handlers, the ValidateConfig hooks that run before them, and the token  *)
(* each handler builds.  One resource instance is modelled at a time; its  *)
(* type is fixed when the instance is declared.                            *)
(*                                                                         *)
(* Strings are sequences of one-character strings, so that prefix tests    *)
(* and slice expressions behave as in Go.  Instants are counted in ticks   *)
(* (TicksPerSecond ticks to the second) so that time.Time.Unix() and the   *)
(* RFC3339 formatting, which both drop the sub-second part, are visible.   *)
(* A token is represented by the claims it carries.                        *)
(***************************************************************************)
EXTENDS Integers, Sequences, FiniteSets, TLC

VARIABLES
    rtype,   \* the resource type of the instance: "user", "operator", "account"
    state,   \* the Terraform state of the instance (NoState before Create)
    resp,    \* the last request handed to the provider and its outcome
    now      \* the wall clock, in ticks

vars == <<rtype, state, resp, now>>

-----------------------------------------------------------------------------
(* Bounds of the model *)

TicksPerSecond == 2
MaxTicks == 2
MaxDuration == 2
MaxInstantSec == 2
MaxLimit == 2

-----------------------------------------------------------------------------
(* Attribute values: null, unknown (computed, not yet known) or known *)

NullV == [k |-> "null"]
UnknownV == [k |-> "unknown"]
Known(x) == [k |-> "known", v |-> x]
IsNull(a) == a.k = "null"
IsUnknown(a) == a.k = "unknown"

NoState == [k |-> "null"]

-----------------------------------------------------------------------------
(* Go strings *)

HasPrefix(s, p) == Len(s) >= Len(p) /\ SubSeq(s, 1, Len(p)) = p

\* s[:n] panics when n exceeds len(s)
SliceInRange(s, n) == n <= Len(s)

-----------------------------------------------------------------------------
(* Key material (github.com/nats-io/nkeys as the handlers use it) *)

\* an operator and an account, each with its identity seed ("1") and the seed of a
\* signing key it delegates to ("2"), and a user
OperatorSeed == <<"S", "O", "1">>
OperatorSigningSeed == <<"S", "O", "2">>
AccountSeed == <<"S", "A", "1">>
AccountSigningSeed == <<"S", "A", "2">>
UserSeed == <<"S", "U", "1">>

\* the identity seed of a second account
OtherAccountSeed == <<"S", "A", "3">>

\* the seed of a server: a key of a type no resource manages
ServerSeed == <<"S", "N", "1">>

\* the seeds nkeys.FromSeed decodes without error
ValidSeeds ==
    {OperatorSeed, OperatorSigningSeed, AccountSeed, AccountSigningSeed, UserSeed,
     OtherAccountSeed, ServerSeed}

\* nkeys.CreateOperator / CreateAccount / CreateUser: a fresh pair of the type,
\* which one depends on the random source
CreatePair(prefix, rand) ==
    CASE prefix = "O" -> IF rand = 1 THEN OperatorSeed ELSE OperatorSigningSeed
      [] prefix = "A" -> IF rand = 1 THEN AccountSeed ELSE OtherAccountSeed
      [] prefix = "U" -> UserSeed

FromSeedOk(seed) == seed \in ValidSeeds

\* KeyPair.PublicKey(): the seed's type character and key body, without the seed marker
PublicKey(seed) == Tail(seed)

ValidPublicKeys == {PublicKey(s) : s \in ValidSeeds}

\* nkeys.IsValidPublicUserKey / AccountKey / OperatorKey, used by Encode
IsValidPublicKey(key, prefix) == key \in ValidPublicKeys /\ HasPrefix(key, <<prefix>>)

\* a well-prefixed string that is no key, and a seed-prefixed string that is no seed
BadKey(prefix) == <<prefix, "?">>
BadSeed(prefix) == <<"S", prefix, "?">>

-----------------------------------------------------------------------------
(* Time *)

\* the clock reads two seconds after the epoch when the model starts
ClockStart == 2 * TicksPerSecond

\* time.Time.Unix(): whole seconds since the epoch
Unix(t) == t \div TicksPerSecond

\* timetypes.NewRFC3339TimeValue: time.Format(time.RFC3339) keeps whole seconds only
FormatRFC3339(t) == [sec |-> t \div TicksPerSecond, frac |-> 0]

\* ValueRFC3339Time: time.Parse(time.RFC3339, s) accepts a fractional second
ParseRFC3339(s) == s.sec * TicksPerSecond + s.frac

\* the jwt library leaves out a zero exp / nbf: the token has no bound on that side
HasBound(claim) == claim # 0

-----------------------------------------------------------------------------
(* Handler results *)

\* `data` is what the handler passed to resp.State.Set, NoWrite when it returned
\* before the call; `assembled` tells whether the claims object was constructed
NoWrite == [k |-> "nowrite"]

\* variant: the handler sets a state before it returns the error
FailureWritesState(title, assembled) ==
    [outcome |-> "error", errors |-> {title}, assembled |-> assembled,
     data |-> [k |-> "state", id |-> UnknownV]]

\* Diagnostics.AddError followed by return
Failure(title, assembled) ==
    [outcome |-> "error", errors |-> {title}, assembled |-> assembled, data |-> NoWrite]

\* a slice expression out of range: the provider process dies with a run-time panic
Panic ==
    [outcome |-> "panic", errors |-> {}, assembled |-> FALSE, data |-> NoWrite]

\* resp.State.Set(ctx, &data) at the end of the handler
Success(data) ==
    [outcome |-> "ok", errors |-> {}, assembled |-> TRUE, data |-> data]

-----------------------------------------------------------------------------
(* Validity bounds (the same block in the user and operator handlers) *)

\* variant: the duration is added to the clock reading of the first build
ResolveBoundFrozenClock(relIn, absAt, t) ==
    IF ~IsNull(relIn) /\ ~IsUnknown(relIn)
    THEN IF relIn.v # 0
         THEN [stored |-> Known(FormatRFC3339(ClockStart + relIn.v)),
               claim |-> Unix(ClockStart + relIn.v)]
         ELSE [stored |-> NullV, claim |-> 0]
    ELSE IF ~IsNull(absAt) /\ ~IsUnknown(absAt)
         THEN [stored |-> absAt, claim |-> Unix(ParseRFC3339(absAt.v))]
         ELSE [stored |-> NullV, claim |-> 0]

\* variant: a zero duration is resolved like any other
ResolveBoundZeroIsNow(relIn, absAt, t) ==
    IF ~IsNull(relIn) /\ ~IsUnknown(relIn)
    THEN [stored |-> Known(FormatRFC3339(t + relIn.v)), claim |-> Unix(t + relIn.v)]
    ELSE IF ~IsNull(absAt) /\ ~IsUnknown(absAt)
         THEN [stored |-> absAt, claim |-> Unix(ParseRFC3339(absAt.v))]
         ELSE [stored |-> NullV, claim |-> 0]

\* what the block stores in expires_at / starts_at and writes to the claim
ResolveBound(relIn, absAt, t) ==
    IF ~IsNull(relIn) /\ ~IsUnknown(relIn)
    THEN IF relIn.v # 0
         THEN [stored |-> Known(FormatRFC3339(t + relIn.v)), claim |-> Unix(t + relIn.v)]
         ELSE [stored |-> NullV, claim |-> 0]
    ELSE IF ~IsNull(absAt) /\ ~IsUnknown(absAt)
         THEN [stored |-> absAt, claim |-> Unix(ParseRFC3339(absAt.v))]
         ELSE [stored |-> NullV, claim |-> 0]

\* variant: only the expiry pair is examined
ValidateBoundsExpiryOnly(cfg) ==
    IF ~IsNull(cfg.expires_in) /\ ~IsUnknown(cfg.expires_in)
       /\ ~IsNull(cfg.expires_at) /\ ~IsUnknown(cfg.expires_at)
    THEN {"Conflicting Expiry Configuration"} ELSE {}

\* ValidateConfig: the titles of the diagnostics it adds
ValidateBounds(cfg) ==
    (IF ~IsNull(cfg.expires_in) /\ ~IsUnknown(cfg.expires_in)
        /\ ~IsNull(cfg.expires_at) /\ ~IsUnknown(cfg.expires_at)
     THEN {"Conflicting Expiry Configuration"} ELSE {})
    \cup
    (IF ~IsNull(cfg.starts_in) /\ ~IsUnknown(cfg.starts_in)
        /\ ~IsNull(cfg.starts_at) /\ ~IsUnknown(cfg.starts_at)
     THEN {"Conflicting Start Configuration"} ELSE {})

\* an Optional+Computed attribute left out of the configuration is unknown in the plan
PlanComputed(a) == IF IsNull(a) THEN UnknownV ELSE a

-----------------------------------------------------------------------------
(* Token encoding (github.com/nats-io/jwt/v2 as the handlers use it) *)

\* variant: the issuer the claims already hold is kept
EncodeKeepsIssuer(claims, seed, subjectPrefix, issuerPrefixes) ==
    IF ~IsValidPublicKey(claims.sub, subjectPrefix)
    THEN [ok |-> FALSE]
    ELSE IF ~\E p \in issuerPrefixes : HasPrefix(PublicKey(seed), <<p>>)
         THEN [ok |-> FALSE]
         ELSE [ok |-> TRUE, jwt |-> claims]

\* Claims.Encode(kp): the subject must be a public key of the claim's role and the
\* signer of an expected role; the issuer is set to the signer's public key
Encode(claims, seed, subjectPrefix, issuerPrefixes) ==
    IF ~IsValidPublicKey(claims.sub, subjectPrefix)
    THEN [ok |-> FALSE]
    ELSE IF ~\E p \in issuerPrefixes : HasPrefix(PublicKey(seed), <<p>>)
         THEN [ok |-> FALSE]
         ELSE [ok |-> TRUE, jwt |-> [claims EXCEPT !.iss = PublicKey(seed)]]

-----------------------------------------------------------------------------
(* Permissions (the same block in the user and account handlers) *)

\* no response permission in the claims
NoResponsePermission == [k |-> "null"]

\* variant: a list is attached with its duplicates dropped
RECURSIVE PermissionListUnique(_)
PermissionListUnique(a) ==
    IF IsNull(a) \/ a.v = <<>> THEN <<>>
    ELSE LET front == PermissionListUnique(Known(SubSeq(a.v, 1, Len(a.v) - 1)))
             last == a.v[Len(a.v)]
         IN  IF \E i \in 1..Len(front) : front[i] = last THEN front
             ELSE Append(front, last)

\* Permissions.Pub.Allow = allowPub: the list of the plan, as it is
PermissionList(a) == IF ~IsNull(a) THEN a.v ELSE <<>>

\* variant: the response permission is attached whenever a count is given
ResponsePermissionAnyCount(maxIn, ttlIn) ==
    IF ~IsNull(maxIn)
    THEN [k |-> "resp", max_msgs |-> maxIn.v,
          expires |-> IF ~IsNull(ttlIn) /\ ~IsUnknown(ttlIn) THEN ttlIn.v ELSE 0]
    ELSE NoResponsePermission

\* Permissions.Resp: attached only for a count above zero, the time limit with it
ResponsePermission(maxIn, ttlIn) ==
    IF ~IsNull(maxIn) /\ (IF IsUnknown(maxIn) THEN 0 ELSE maxIn.v) > 0
    THEN [k |-> "resp", max_msgs |-> maxIn.v,
          expires |-> IF ~IsNull(ttlIn) /\ ~IsUnknown(ttlIn) THEN ttlIn.v ELSE 0]
    ELSE NoResponsePermission

\* allow_pub_response has the schema default 0
PlanResponseCount(a) == IF IsNull(a) THEN Known(0) ELSE a

-----------------------------------------------------------------------------
(* Limits *)

\* the limit attributes of a user and the claim field each one is copied to
UserLimitField ==
    [max_subscriptions |-> "Subs", max_data |-> "Data", max_payload |-> "Payload"]

\* Limits of jwt.NewUserClaims: jwt.NoLimit everywhere
DefaultUserLimits == [Subs |-> -1, Data |-> -1, Payload |-> -1]

\* the limit attributes of an account and the claim field each one is copied to
AccountLimitField ==
    [max_connections |-> "Conn", max_leaf_nodes |-> "LeafNodeConn",
     max_data |-> "Data", max_payload |-> "Payload", max_subscriptions |-> "Subs",
     max_imports |-> "Imports", max_exports |-> "Exports",
     allow_wildcard_exports |-> "WildcardExports",
     disallow_bearer_token |-> "DisallowBearer",
     max_memory_storage |-> "MemoryStorage", max_disk_storage |-> "DiskStorage",
     max_streams |-> "Streams", max_consumers |-> "Consumer",
     max_ack_pending |-> "MaxAckPending",
     max_memory_stream_bytes |-> "MemoryMaxStreamBytes",
     max_disk_stream_bytes |-> "DiskMaxStreamBytes",
     max_bytes_required |-> "MaxBytesRequired"]

\* Limits of jwt.NewAccountClaims: no limit on the account, JetStream disabled
DefaultAccountLimits ==
    [Conn |-> -1, LeafNodeConn |-> -1, Data |-> -1, Payload |-> -1, Subs |-> -1,
     Imports |-> -1, Exports |-> -1, WildcardExports |-> TRUE,
     DisallowBearer |-> FALSE,
     MemoryStorage |-> 0, DiskStorage |-> 0, Streams |-> 0, Consumer |-> 0,
     MaxAckPending |-> 0, MemoryMaxStreamBytes |-> 0, DiskMaxStreamBytes |-> 0,
     MaxBytesRequired |-> FALSE]

\* the claim field written from attribute a
FieldAttr(fieldOf, f) == CHOOSE a \in DOMAIN fieldOf : fieldOf[a] = f

\* variant: a zero counts as not set
SetLimitsSkipZero(limits, fieldOf, attrs) ==
    [f \in DOMAIN limits |->
        LET a == attrs[FieldAttr(fieldOf, f)]
        IN  IF IsNull(a) \/ a.v = 0 THEN limits[f] ELSE a.v]

\* the chain of `if !data.X.IsNull() { claims.Limits.F = data.X.Value() }`
SetLimits(limits, fieldOf, attrs) ==
    [f \in DOMAIN limits |->
        LET a == attrs[FieldAttr(fieldOf, f)]
        IN  IF IsNull(a) THEN limits[f] ELSE a.v]

\* the block that copies allowed_connection_types
ConnectionTypes(a) == IF IsNull(a) THEN <<>> ELSE a.v

-----------------------------------------------------------------------------
(* nsc_user *)

UserValidateConfig(cfg) == ValidateBounds(cfg)

UserPlan(cfg) ==
    [k |-> "state", id |-> UnknownV, name |-> cfg.name, subject |-> cfg.subject,
     issuer_seed |-> cfg.issuer_seed, bearer |-> cfg.bearer,
     allow_pub |-> cfg.allow_pub, allow_sub |-> cfg.allow_sub,
     deny_pub |-> cfg.deny_pub, deny_sub |-> cfg.deny_sub,
     allow_pub_response |-> PlanResponseCount(cfg.allow_pub_response),
     response_ttl |-> cfg.response_ttl,
     expires_in |-> cfg.expires_in, expires_at |-> PlanComputed(cfg.expires_at),
     starts_in |-> cfg.starts_in, starts_at |-> PlanComputed(cfg.starts_at),
     limits |-> cfg.limits,
     allowed_connection_types |-> cfg.allowed_connection_types,
     jwt |-> UnknownV, jwt_sensitive |-> UnknownV, public_key |-> UnknownV]

\* jwt.NewUserClaims(subject) with name and issuer account set
NewUserClaims(userPubKey, name, accountPubKey) ==
    [typ |-> "user", sub |-> userPubKey, iss |-> <<>>, name |-> name,
     issuer_account |-> accountPubKey, bearer |-> FALSE, exp |-> 0, nbf |-> 0,
     pub_allow |-> <<>>, pub_deny |-> <<>>, sub_allow |-> <<>>, sub_deny |-> <<>>,
     resp_perm |-> NoResponsePermission,
     limits |-> DefaultUserLimits, allowed_connection_types |-> <<>>]

\* the part Create and Update share: fill the claims from the plan, sign, and
\* return the plan with the computed bounds and the token
UserBuild(data, userPubKey, accountSeedStr, accountPubKey, t) ==
    LET expiry == ResolveBound(data.expires_in, data.expires_at, t)
        start == ResolveBound(data.starts_in, data.starts_at, t)
        userClaims == [NewUserClaims(userPubKey, data.name, accountPubKey) EXCEPT
                          !.pub_allow = PermissionList(data.allow_pub),
                          !.sub_allow = PermissionList(data.allow_sub),
                          !.pub_deny = PermissionList(data.deny_pub),
                          !.sub_deny = PermissionList(data.deny_sub),
                          !.resp_perm = ResponsePermission(data.allow_pub_response,
                                                           data.response_ttl),
                          !.bearer = data.bearer,
                          !.exp = expiry.claim,
                          !.nbf = start.claim,
                          !.limits = SetLimits(DefaultUserLimits, UserLimitField,
                                               data.limits),
                          !.allowed_connection_types =
                              ConnectionTypes(data.allowed_connection_types)]
        enc == Encode(userClaims, accountSeedStr, "U", {"A"})
    IN  IF ~enc.ok
        THEN Failure("Failed to encode user JWT", TRUE)
        ELSE Success([data EXCEPT
                          !.expires_at = expiry.stored,
                          !.starts_at = start.stored,
                          !.jwt_sensitive = Known(enc.jwt),
                          !.jwt = IF ~data.bearer THEN Known(enc.jwt) ELSE NullV])

UserCreateHandler(data, t) ==
    LET userPubKey == data.subject
        accountSeedStr == data.issuer_seed
    IN  IF ~HasPrefix(userPubKey, <<"U">>)
        THEN IF SliceInRange(userPubKey, 1)
             THEN Failure("Invalid user public key", FALSE)
             ELSE Panic
        ELSE IF ~HasPrefix(accountSeedStr, <<"S", "A">>)
        THEN IF SliceInRange(accountSeedStr, 2)
             THEN Failure("Invalid issuer seed", FALSE)
             ELSE Panic
        ELSE IF ~FromSeedOk(accountSeedStr)
        THEN Failure("Failed to parse issuer seed", FALSE)
        ELSE IF ~HasPrefix(PublicKey(accountSeedStr), <<"A">>)
        THEN Failure("Invalid issuer seed", FALSE)
        ELSE LET r == UserBuild(data, userPubKey, accountSeedStr,
                                PublicKey(accountSeedStr), t)
             IN  IF r.outcome # "ok" THEN r
                 ELSE Success([r.data EXCEPT !.id = Known(userPubKey),
                                             !.public_key = Known(userPubKey)])

\* variant: the update keeps the jwt attribute of the prior state
UserUpdateHandlerKeepsJwt(data, prior, t) ==
    LET r == UserBuild(data, prior.subject, prior.issuer_seed,
                       PublicKey(prior.issuer_seed), t)
    IN  IF ~FromSeedOk(prior.issuer_seed)
        THEN Failure("Failed to restore account keypair", FALSE)
        ELSE IF r.outcome # "ok" THEN r
        ELSE Success([r.data EXCEPT !.id = prior.id,
                                    !.public_key = prior.public_key,
                                    !.subject = prior.subject,
                                    !.issuer_seed = prior.issuer_seed,
                                    !.jwt = prior.jwt])

UserUpdateHandler(data, prior, t) ==
    LET userPubKey == prior.subject
        accountSeedStr == prior.issuer_seed
    IN  IF ~FromSeedOk(accountSeedStr)
        THEN Failure("Failed to restore account keypair", FALSE)
        ELSE LET r == UserBuild(data, userPubKey, accountSeedStr,
                                PublicKey(accountSeedStr), t)
             IN  IF r.outcome # "ok" THEN r
                 ELSE Success([r.data EXCEPT !.id = prior.id,
                                             !.public_key = prior.public_key,
                                             !.subject = prior.subject,
                                             !.issuer_seed = prior.issuer_seed])

-----------------------------------------------------------------------------
(* Signing-key lists *)

\* jwt.StringList.Add: appends a key that is not empty and not yet listed
StringListAdd(list, key) ==
    IF key = <<>> \/ \E i \in 1..Len(list) : list[i] = key THEN list ELSE Append(list, key)

\* variant: the keys are added without a look at their prefix
AddSigningKeysUnchecked(keys, i, prefix, acc) ==
    [ok |-> TRUE, keys |-> keys]

\* the loop over the declared signing keys: the first key without the prefix
\* ends the handler with an error, the others are added in order
RECURSIVE AddSigningKeys(_, _, _, _)
AddSigningKeys(keys, i, prefix, acc) ==
    IF i > Len(keys) THEN [ok |-> TRUE, keys |-> acc]
    ELSE IF ~HasPrefix(keys[i], <<prefix>>) THEN [ok |-> FALSE, keys |-> acc]
    ELSE AddSigningKeys(keys, i + 1, prefix, StringListAdd(acc, keys[i]))

-----------------------------------------------------------------------------
(* nsc_operator *)

OperatorValidateConfig(cfg) == ValidateBounds(cfg)

OperatorPlan(cfg) ==
    [k |-> "state", id |-> UnknownV, name |-> cfg.name, subject |-> cfg.subject,
     issuer_seed |-> cfg.issuer_seed, signing_keys |-> cfg.signing_keys,
     system_account |-> cfg.system_account,
     expires_in |-> cfg.expires_in, expires_at |-> PlanComputed(cfg.expires_at),
     starts_in |-> cfg.starts_in, starts_at |-> PlanComputed(cfg.starts_at),
     jwt |-> UnknownV, public_key |-> UnknownV]

\* jwt.NewOperatorClaims(subject) with the name set
NewOperatorClaims(operatorPubKey, name) ==
    [typ |-> "operator", sub |-> operatorPubKey, iss |-> <<>>, name |-> name,
     signing_keys |-> <<>>, system_account |-> <<>>, exp |-> 0, nbf |-> 0]

\* the part Create and Update share
OperatorBuild(data, operatorPubKey, operatorSeedStr, t) ==
    LET expiry == ResolveBound(data.expires_in, data.expires_at, t)
        start == ResolveBound(data.starts_in, data.starts_at, t)
        sk == IF ~IsNull(data.signing_keys) /\ ~IsUnknown(data.signing_keys)
              THEN AddSigningKeys(data.signing_keys.v, 1, "O", <<>>)
              ELSE [ok |-> TRUE, keys |-> <<>>]
        hasSys == ~IsNull(data.system_account) /\ ~IsUnknown(data.system_account)
    IN  IF ~sk.ok
        THEN Failure("Invalid signing key", TRUE)
        ELSE IF hasSys /\ ~HasPrefix(data.system_account.v, <<"A">>)
        THEN Failure("Invalid system account", TRUE)
        ELSE LET operatorClaims ==
                     [NewOperatorClaims(operatorPubKey, data.name) EXCEPT
                          !.exp = expiry.claim,
                          !.nbf = start.claim,
                          !.signing_keys = sk.keys,
                          !.system_account =
                              IF hasSys THEN data.system_account.v ELSE <<>>]
                 enc == Encode(operatorClaims, operatorSeedStr, "O", {"O"})
             IN  IF ~enc.ok
                 THEN Failure("Failed to encode operator JWT", TRUE)
                 ELSE Success([data EXCEPT
                                   !.expires_at = expiry.stored,
                                   !.starts_at = start.stored,
                                   !.jwt = Known(enc.jwt)])

\* variant: the key derived from the seed is not compared with the subject
OperatorCreateHandlerNoKeyCheck(data, t) ==
    IF ~HasPrefix(data.subject, <<"O">>) \/ ~HasPrefix(data.issuer_seed, <<"S", "O">>)
       \/ ~FromSeedOk(data.issuer_seed)
    THEN Failure("Invalid operator seed", FALSE)
    ELSE LET r == OperatorBuild(data, data.subject, data.issuer_seed, t)
         IN  IF r.outcome # "ok" THEN r
             ELSE Success([r.data EXCEPT !.id = Known(data.subject),
                                         !.public_key = Known(data.subject)])

OperatorCreateHandler(data, t) ==
    LET operatorPubKey == data.subject
        operatorSeedStr == data.issuer_seed
    IN  IF ~HasPrefix(operatorPubKey, <<"O">>)
        THEN IF SliceInRange(operatorPubKey, 1)
             THEN Failure("Invalid operator public key", FALSE)
             ELSE Panic
        ELSE IF ~HasPrefix(operatorSeedStr, <<"S", "O">>)
        THEN IF SliceInRange(operatorSeedStr, 2)
             THEN Failure("Invalid operator seed", FALSE)
             ELSE Panic
        ELSE IF ~FromSeedOk(operatorSeedStr)
        THEN Failure("Failed to parse operator seed", FALSE)
        ELSE IF PublicKey(operatorSeedStr) # operatorPubKey
        THEN Failure("Key mismatch", FALSE)
        ELSE LET r == OperatorBuild(data, operatorPubKey, operatorSeedStr, t)
             IN  IF r.outcome # "ok" THEN r
                 ELSE Success([r.data EXCEPT !.id = Known(operatorPubKey),
                                             !.public_key = Known(operatorPubKey)])

OperatorUpdateHandler(data, prior, t) ==
    LET operatorPubKey == prior.subject
        operatorSeedStr == prior.issuer_seed
    IN  IF ~FromSeedOk(operatorSeedStr)
        THEN Failure("Failed to restore operator keypair", FALSE)
        ELSE LET r == OperatorBuild(data, operatorPubKey, operatorSeedStr, t)
             IN  IF r.outcome # "ok" THEN r
                 ELSE Success([r.data EXCEPT !.id = prior.id,
                                             !.public_key = prior.public_key,
                                             !.subject = prior.subject,
                                             !.issuer_seed = prior.issuer_seed])

-----------------------------------------------------------------------------
(* nsc_account *)

AccountPlan(cfg) ==
    [k |-> "state", id |-> UnknownV, name |-> cfg.name, subject |-> cfg.subject,
     issuer_seed |-> cfg.issuer_seed, signing_keys |-> cfg.signing_keys,
     allow_pub |-> cfg.allow_pub, allow_sub |-> cfg.allow_sub,
     deny_pub |-> cfg.deny_pub, deny_sub |-> cfg.deny_sub,
     allow_pub_response |-> PlanResponseCount(cfg.allow_pub_response),
     response_ttl |-> cfg.response_ttl,
     expiry |-> cfg.expiry, start |-> cfg.start,
     limits |-> cfg.limits,
     export |-> cfg.export, import |-> cfg.import,
     jwt |-> UnknownV, public_key |-> UnknownV]

\* jwt.NewAccountClaims(subject) with name and issuer set
NewAccountClaims(accountPubKey, name, operatorPubKey) ==
    [typ |-> "account", sub |-> accountPubKey, iss |-> operatorPubKey, name |-> name,
     signing_keys |-> {}, exports |-> <<>>, imports |-> <<>>, exp |-> 0, nbf |-> 0,
     pub_allow |-> <<>>, pub_deny |-> <<>>, sub_allow |-> <<>>, sub_deny |-> <<>>,
     resp_perm |-> NoResponsePermission, limits |-> DefaultAccountLimits]

\* expiry / start of the account: relative only, nothing is stored
RelativeBound(rel, t) ==
    IF ~IsNull(rel) /\ ~IsUnknown(rel) /\ rel.v # 0 THEN Unix(t + rel.v) ELSE 0

\* variant: any type is taken
KindOkAny(decl) == TRUE

\* the switch on the declared type of an export or import
KindOk(decl) == decl.type \in {"stream", "service"}

\* the part Create and Update share
AccountBuild(data, accountPubKey, operatorSeedStr, operatorPubKey, t) ==
    LET exports == IF ~IsNull(data.export) THEN data.export.v ELSE <<>>
        imports == IF ~IsNull(data.import) THEN data.import.v ELSE <<>>
        hasKeys == ~IsNull(data.signing_keys) /\ ~IsUnknown(data.signing_keys)
        keys == IF hasKeys THEN data.signing_keys.v ELSE <<>>
    IN  IF \E i \in 1..Len(exports) : ~KindOk(exports[i])
        THEN Failure("Invalid export type", TRUE)
        ELSE IF \E i \in 1..Len(imports) : ~KindOk(imports[i])
        THEN Failure("Invalid import type", TRUE)
        ELSE IF \E i \in 1..Len(keys) : ~HasPrefix(keys[i], <<"A">>)
        THEN Failure("Invalid signing key", TRUE)
        ELSE LET accountClaims ==
                     [NewAccountClaims(accountPubKey, data.name, operatorPubKey) EXCEPT
                          !.pub_allow = PermissionList(data.allow_pub),
                          !.sub_allow = PermissionList(data.allow_sub),
                          !.pub_deny = PermissionList(data.deny_pub),
                          !.sub_deny = PermissionList(data.deny_sub),
                          !.resp_perm = ResponsePermission(data.allow_pub_response,
                                                           data.response_ttl),
                          !.exp = RelativeBound(data.expiry, t),
                          !.nbf = RelativeBound(data.start, t),
                          !.limits = SetLimits(DefaultAccountLimits,
                                               AccountLimitField, data.limits),
                          !.exports = exports,
                          !.imports = imports,
                          !.signing_keys = {keys[i] : i \in 1..Len(keys)}]
                 enc == Encode(accountClaims, operatorSeedStr, "A", {"O", "A"})
             IN  IF ~enc.ok
                 THEN Failure("Failed to encode account JWT", TRUE)
                 ELSE Success([data EXCEPT !.jwt = Known(enc.jwt)])

\* variant: the subject is not examined before the claims are built
AccountCreateHandlerNoSubjectCheck(data, t) ==
    IF ~HasPrefix(data.issuer_seed, <<"S", "O">>) \/ ~FromSeedOk(data.issuer_seed)
    THEN Failure("Invalid operator seed", FALSE)
    ELSE AccountBuild(data, data.subject, data.issuer_seed,
                      PublicKey(data.issuer_seed), t)

\* variant: the seed may be of any role
AccountCreateHandlerAnySigner(data, t) ==
    IF ~HasPrefix(data.subject, <<"A">>) \/ ~FromSeedOk(data.issuer_seed)
    THEN Failure("Invalid account public key", FALSE)
    ELSE LET r == AccountBuild(data, data.subject, data.issuer_seed,
                               PublicKey(data.issuer_seed), t)
         IN  IF r.outcome # "ok" THEN r
             ELSE Success([r.data EXCEPT !.id = Known(data.subject),
                                         !.public_key = Known(data.subject)])

AccountCreateHandler(data, t) ==
    LET accountPubKey == data.subject
        operatorSeedStr == data.issuer_seed
    IN  IF ~HasPrefix(accountPubKey, <<"A">>)
        THEN IF SliceInRange(accountPubKey, 1)
             THEN Failure("Invalid account public key", FALSE)
             ELSE Panic
        ELSE IF ~HasPrefix(operatorSeedStr, <<"S", "O">>)
        THEN IF SliceInRange(operatorSeedStr, 2)
             THEN Failure("Invalid operator seed", FALSE)
             ELSE Panic
        ELSE IF ~FromSeedOk(operatorSeedStr)
        THEN Failure("Failed to parse operator seed", FALSE)
        ELSE IF ~HasPrefix(PublicKey(operatorSeedStr), <<"O">>)
        THEN Failure("Invalid operator seed", FALSE)
        ELSE LET r == AccountBuild(data, accountPubKey, operatorSeedStr,
                                   PublicKey(operatorSeedStr), t)
             IN  IF r.outcome # "ok" THEN r
                 ELSE Success([r.data EXCEPT !.id = Known(accountPubKey),
                                             !.public_key = Known(accountPubKey)])

\* variant: the update signs the claims under the stored name
AccountUpdateHandlerStoredName(data, prior, t) ==
    LET r == AccountBuild([data EXCEPT !.name = prior.name], prior.subject,
                          prior.issuer_seed, PublicKey(prior.issuer_seed), t)
    IN  IF r.outcome # "ok" THEN r
        ELSE Success([r.data EXCEPT !.id = prior.id,
                                    !.public_key = prior.public_key,
                                    !.subject = prior.subject,
                                    !.issuer_seed = prior.issuer_seed,
                                    !.name = data.name])

AccountUpdateHandler(data, prior, t) ==
    LET accountPubKey == prior.subject
        operatorSeedStr == prior.issuer_seed
    IN  IF ~FromSeedOk(operatorSeedStr)
        THEN Failure("Failed to restore operator keypair", FALSE)
        ELSE LET r == AccountBuild(data, accountPubKey, operatorSeedStr,
                                   PublicKey(operatorSeedStr), t)
             IN  IF r.outcome # "ok" THEN r
                 ELSE Success([r.data EXCEPT !.id = prior.id,
                                             !.public_key = prior.public_key,
                                             !.subject = prior.subject,
                                             !.issuer_seed = prior.issuer_seed])

-----------------------------------------------------------------------------
(* nsc_operator that generates its keys and a system account *)

\* types.String.ValueString and types.Bool.ValueBool: the zero value unless known
ValueString(a) == IF a.k = "known" THEN a.v ELSE <<>>
ValueBool(a) == a.k = "known" /\ a.v

\* an absent attribute takes its schema default
WithDefault(a, d) == IF IsNull(a) THEN Known(d) ELSE a

\* the computed attributes are unknown in a plan, but for id, which keeps its
\* state value
KeyedOperatorPlan(cfg, prior) ==
    [k |-> "state",
     id |-> IF prior = NoState THEN UnknownV ELSE prior.id,
     name |-> cfg.name,
     generate_signing_key |-> WithDefault(cfg.generate_signing_key, FALSE),
     create_system_account |-> WithDefault(cfg.create_system_account, FALSE),
     system_account_name |-> WithDefault(cfg.system_account_name, "SYS"),
     expiry |-> WithDefault(cfg.expiry, 0),
     start |-> WithDefault(cfg.start, 0),
     jwt |-> UnknownV, seed |-> UnknownV, public_key |-> UnknownV,
     signing_key_seed |-> UnknownV, signing_key |-> UnknownV,
     system_account |-> UnknownV, system_account_jwt |-> UnknownV,
     system_account_seed |-> UnknownV]

\* the token of the system account: named, issued and signed by the operator
SystemAccountJWT(systemAccountPubKey, data, operatorPubKey, operatorSeed) ==
    LET sysAccountName ==
            IF ~IsNull(data.system_account_name) /\ ~IsUnknown(data.system_account_name)
            THEN data.system_account_name.v ELSE "SYS"
    IN  Encode(NewAccountClaims(systemAccountPubKey, sysAccountName, operatorPubKey),
               operatorSeed, "A", {"O", "A"})

KeyedOperatorCreateHandler(data, rand, t) ==
    LET operatorSeed == CreatePair("O", rand)
        operatorPubKey == PublicKey(operatorSeed)
        signingKeySeed == CreatePair("O", 3 - rand)
        systemAccountSeed == CreatePair("A", rand)
        withKey == ValueBool(data.generate_signing_key)
        withSys == ValueBool(data.create_system_account)
        operatorClaims ==
            [NewOperatorClaims(operatorPubKey, data.name) EXCEPT
                 !.exp = RelativeBound(data.expiry, t),
                 !.nbf = RelativeBound(data.start, t),
                 !.signing_keys = IF withKey
                                  THEN StringListAdd(<<>>, PublicKey(signingKeySeed))
                                  ELSE <<>>,
                 !.system_account = IF withSys THEN PublicKey(systemAccountSeed)
                                    ELSE <<>>]
        sys == SystemAccountJWT(PublicKey(systemAccountSeed), data, operatorPubKey,
                                operatorSeed)
        enc == Encode(operatorClaims, operatorSeed, "O", {"O"})
    IN  IF withSys /\ ~sys.ok
        THEN Failure("Failed to encode system account JWT", TRUE)
        ELSE IF ~enc.ok
        THEN Failure("Failed to encode operator JWT", TRUE)
        ELSE Success([data EXCEPT
                 !.id = Known(operatorPubKey),
                 !.public_key = Known(operatorPubKey),
                 !.seed = Known(operatorSeed),
                 !.jwt = Known(enc.jwt),
                 !.signing_key_seed = IF withKey THEN Known(signingKeySeed) ELSE NullV,
                 !.signing_key = IF withKey THEN Known(PublicKey(signingKeySeed))
                                 ELSE NullV,
                 !.system_account = IF withSys THEN Known(PublicKey(systemAccountSeed))
                                    ELSE NullV,
                 !.system_account_jwt = IF withSys THEN Known(sys.jwt) ELSE NullV,
                 !.system_account_seed = IF withSys THEN Known(systemAccountSeed)
                                         ELSE NullV])

\* "Preserve system account if not set above"
PreserveSystemAccount(data, prior) ==
    IF IsNull(data.system_account)
    THEN [data EXCEPT !.system_account = prior.system_account,
                      !.system_account_jwt = prior.system_account_jwt,
                      !.system_account_seed = prior.system_account_seed]
    ELSE data

KeyedOperatorUpdateHandler(data, prior, rand, t) ==
    LET operatorSeed == ValueString(prior.seed)
        operatorPubKey == PublicKey(operatorSeed)
        withSys == ValueBool(data.create_system_account)
        existing == ~IsNull(prior.system_account)
        regenerate == withSys /\ ~IsNull(prior.system_account_seed)
        systemAccountSeed == CreatePair("A", rand)
        operatorClaims ==
            [NewOperatorClaims(operatorPubKey, data.name) EXCEPT
                 !.exp = RelativeBound(data.expiry, t),
                 !.nbf = RelativeBound(data.start, t),
                 !.signing_keys = IF ~IsNull(prior.signing_key)
                                  THEN StringListAdd(<<>>, ValueString(prior.signing_key))
                                  ELSE <<>>,
                 !.system_account =
                     IF ~withSys THEN <<>>
                     ELSE IF existing THEN ValueString(prior.system_account)
                     ELSE PublicKey(systemAccountSeed)]
        fresh == SystemAccountJWT(PublicKey(systemAccountSeed), data, operatorPubKey,
                                  operatorSeed)
        again == SystemAccountJWT(ValueString(prior.system_account), data,
                                  operatorPubKey, operatorSeed)
        generated == IF withSys /\ ~existing
                     THEN [data EXCEPT
                              !.system_account = Known(PublicKey(systemAccountSeed)),
                              !.system_account_jwt = Known(fresh.jwt),
                              !.system_account_seed = Known(systemAccountSeed)]
                     ELSE data
        resigned == IF regenerate
                    THEN [generated EXCEPT !.system_account_jwt = Known(again.jwt)]
                    ELSE generated
        cleared == IF withSys THEN resigned
                   ELSE [data EXCEPT !.system_account = NullV,
                                     !.system_account_jwt = NullV,
                                     !.system_account_seed = NullV]
        enc == Encode(operatorClaims, operatorSeed, "O", {"O"})
    IN  IF ~FromSeedOk(operatorSeed)
        THEN Failure("Failed to restore operator keypair", FALSE)
        ELSE IF withSys /\ ~existing /\ ~fresh.ok
        THEN Failure("Failed to encode system account JWT", TRUE)
        ELSE IF regenerate /\ ~FromSeedOk(ValueString(prior.system_account_seed))
        THEN Failure("Failed to restore system account keypair", TRUE)
        ELSE IF regenerate /\ ~again.ok
        THEN Failure("Failed to encode system account JWT", TRUE)
        ELSE IF ~enc.ok
        THEN Failure("Failed to encode operator JWT", TRUE)
        ELSE Success(PreserveSystemAccount(
                 [cleared EXCEPT !.id = prior.id,
                                 !.public_key = prior.public_key,
                                 !.seed = prior.seed,
                                 !.jwt = Known(enc.jwt),
                                 !.signing_key_seed = prior.signing_key_seed,
                                 !.signing_key = prior.signing_key],
                 prior))

-----------------------------------------------------------------------------
(* nsc_nkey *)

\* the validator of the type attribute
NKeyValidateConfig(cfg) ==
    IF cfg.type \in {"operator", "account", "user"} THEN {}
    ELSE {"Invalid Attribute Value Match"}

NKeyPlan(cfg) ==
    [k |-> "state", id |-> UnknownV, type |-> cfg.type, public_key |-> UnknownV,
     seed |-> UnknownV]

\* the prefix of the public keys of a type
ExpectedPrefix(keyType) ==
    CASE keyType = "operator" -> "O"
      [] keyType = "account" -> "A"
      [] keyType = "user" -> "U"

\* variant: every type gets an account pair and the prefix is not compared
NKeyCreateHandlerAccountPair(data, rand) ==
    LET kp == CreatePair("A", rand)
    IN  Success([data EXCEPT !.id = Known(PublicKey(kp)),
                             !.public_key = Known(PublicKey(kp)),
                             !.seed = Known(kp)])

NKeyCreateHandler(data, rand) ==
    LET keyType == data.type
    IN  IF keyType \notin {"operator", "account", "user"}
        THEN Failure("Invalid NKey type", FALSE)
        ELSE LET kp == CreatePair(ExpectedPrefix(keyType), rand)
                 publicKey == PublicKey(kp)
             IN  IF ~HasPrefix(publicKey, <<ExpectedPrefix(keyType)>>)
                 THEN Failure("Key type mismatch", FALSE)
                 ELSE Success([data EXCEPT !.id = Known(publicKey),
                                           !.public_key = Known(publicKey),
                                           !.seed = Known(kp)])

NKeyUpdateHandler(data, prior) == Failure("NKey Update Not Supported", FALSE)

\* variant: the type is not derived from the key
NKeyImportStateAsAccount(seedStr) ==
    IF ~FromSeedOk(seedStr)
    THEN Failure("Invalid seed", FALSE)
    ELSE Success([k |-> "state", id |-> Known(PublicKey(seedStr)), type |-> "account",
                  public_key |-> Known(PublicKey(seedStr)), seed |-> Known(seedStr)])

NKeyImportState(seedStr) ==
    IF ~FromSeedOk(seedStr)
    THEN Failure("Invalid seed", FALSE)
    ELSE LET publicKey == PublicKey(seedStr)
             keyType == CASE HasPrefix(publicKey, <<"O">>) -> "operator"
                          [] HasPrefix(publicKey, <<"A">>) -> "account"
                          [] HasPrefix(publicKey, <<"U">>) -> "user"
                          [] OTHER -> "none"
         IN  IF keyType = "none"
             THEN Failure("Invalid key type", FALSE)
             ELSE IF ~HasPrefix(seedStr, <<"S", ExpectedPrefix(keyType)>>)
             THEN Failure("Seed type mismatch", FALSE)
             ELSE Success([k |-> "state", id |-> Known(publicKey), type |-> keyType,
                           public_key |-> Known(publicKey), seed |-> Known(seedStr)])

-----------------------------------------------------------------------------
(* nsc_account_key *)

\* seed is optional and computed and keeps its state value when not configured
AccountKeyPlan(cfg, prior) ==
    [k |-> "state",
     id |-> IF prior = NoState THEN UnknownV ELSE prior.id,
     name |-> cfg.name,
     seed |-> IF ~IsNull(cfg.seed) THEN cfg.seed
              ELSE IF prior = NoState THEN UnknownV ELSE prior.seed,
     public_key |-> UnknownV]

AccountKeyCreateHandler(data, rand) ==
    LET provided == ~IsNull(data.seed) /\ ~IsUnknown(data.seed)
        accountKP == IF provided THEN data.seed.v ELSE CreatePair("A", rand)
        accountPubKey == PublicKey(accountKP)
    IN  IF provided /\ ~HasPrefix(accountKP, <<"S", "A">>)
        THEN IF SliceInRange(accountKP, 2)
             THEN Failure("Invalid account seed", FALSE)
             ELSE Panic
        ELSE IF provided /\ ~FromSeedOk(accountKP)
        THEN Failure("Failed to parse provided seed", FALSE)
        ELSE IF ~HasPrefix(accountPubKey, <<"A">>)
        THEN Failure("Invalid key type", FALSE)
        ELSE Success([data EXCEPT !.id = Known(accountPubKey),
                                  !.public_key = Known(accountPubKey),
                                  !.seed = Known(accountKP)])

\* variant: the update keeps the plan's values
AccountKeyUpdateHandlerKeepsPlan(data, prior) == Success(data)

AccountKeyUpdateHandler(data, prior) ==
    Success([data EXCEPT !.id = prior.id,
                         !.public_key = prior.public_key,
                         !.seed = prior.seed])

-----------------------------------------------------------------------------
(* nsc_creds (data source) *)

\* the format string of Read with jwt and seed filled in, as the sequence of its
\* lines (each ended by a line break)
CredsContent(jwt, seed) ==
    <<"-----BEGIN NATS USER JWT-----",
      jwt,
      "------END NATS USER JWT------",
      "",
      "************************* IMPORTANT *************************",
      "NKEY Seed printed below can be used to sign and prove identity.",
      "NKEYs are sensitive and should be treated as secrets.",
      "",
      "-----BEGIN USER NKEY SEED-----",
      seed,
      "------END USER NKEY SEED------",
      "",
      "*************************************************************">>

\* CredsDataSource.Read: the state it sets
CredsRead(jwt, seed) ==
    [k |-> "state", id |-> Known(jwt), jwt |-> Known(jwt), seed |-> Known(seed),
     creds |-> Known(CredsContent(jwt, seed))]

-----------------------------------------------------------------------------
(* Inputs.  A configuration is varied one group of attributes at a time     *)
(* around a plain one: the keys, the validity bounds, or the rest.          *)

Names == {"n1", "n2"}

Durations == {0, MaxDuration}

\* RFC3339 timestamps a configuration may give: the epoch, and a later instant
\* with a fractional second
LaterInstant == [sec |-> MaxInstantSec, frac |-> 1]
AbsInstants == {[sec |-> 0, frac |-> 0], LaterInstant}

\* <<relative, absolute>> forms of one bound: neither or one of them
BoundInputs ==
    {<<NullV, NullV>>}
    \cup {<<Known(d), NullV>> : d \in Durations}
    \cup {<<NullV, Known(a)>> : a \in AbsInstants}

\* both forms of one bound
ConflictInputs == {<<Known(d), Known(LaterInstant)>> : d \in Durations}

NoBound == <<NullV, NullV>>

\* <<expiry, start>>: every pair without a conflict, and the conflicting ones
ValidityInputs ==
    (BoundInputs \X BoundInputs)
    \cup (ConflictInputs \X {NoBound})
    \cup ({NoBound} \X ConflictInputs)
    \cup {<<c, c>> : c \in ConflictInputs}

\* the permission attributes of a configuration
NoPermissions ==
    [allow_pub |-> NullV, allow_sub |-> NullV, deny_pub |-> NullV, deny_sub |-> NullV,
     allow_pub_response |-> NullV, response_ttl |-> NullV]

\* lists with a repeated element, out of alphabetical order; an empty list
PermissionListInputs ==
    {[NoPermissions EXCEPT !.allow_pub = Known(<<"b", "a", "b">>),
                           !.deny_sub = Known(<<"d", "c">>)],
     [NoPermissions EXCEPT !.allow_sub = Known(<<"b", "b">>),
                           !.deny_pub = Known(<<"c", "a", "c">>),
                           !.allow_pub = Known(<<>>)]}

ResponseCounts == {NullV, Known(0), Known(2)}
ResponseTTLs == {NullV, Known(MaxDuration)}

ResponseInputs ==
    {[NoPermissions EXCEPT !.allow_pub_response = m, !.response_ttl = ttl] :
        m \in ResponseCounts, ttl \in ResponseTTLs}

PermissionInputs == (PermissionListInputs \cup ResponseInputs) \ {NoPermissions}

\* a configuration with the permission attributes of p
WithPermissions(cfg, p) ==
    [cfg EXCEPT !.allow_pub = p.allow_pub, !.allow_sub = p.allow_sub,
                !.deny_pub = p.deny_pub, !.deny_sub = p.deny_sub,
                !.allow_pub_response = p.allow_pub_response,
                !.response_ttl = p.response_ttl]

\* <<name, validity>>: every validity under one name, and under the other name no
\* bound, a rolling expiry and a fixed expiry
\* limit values: below jwt.NoLimit, jwt.NoLimit, zero and a count
LimitValues == {-2, -1, 0, MaxLimit}

\* no limit attribute is set
NoLimits(fieldOf) == [a \in DOMAIN fieldOf |-> NullV]

\* the limit attributes of an account that are flags
AccountFlagAttrs ==
    {"allow_wildcard_exports", "disallow_bearer_token", "max_bytes_required"}

\* every limit set, no two counts alike
AllUserLimits ==
    [max_subscriptions |-> Known(1), max_data |-> Known(2), max_payload |-> Known(3)]

AllAccountLimits ==
    [max_connections |-> Known(1), max_leaf_nodes |-> Known(2), max_data |-> Known(3),
     max_payload |-> Known(4), max_subscriptions |-> Known(5),
     max_imports |-> Known(6), max_exports |-> Known(7),
     allow_wildcard_exports |-> Known(FALSE), disallow_bearer_token |-> Known(TRUE),
     max_memory_storage |-> Known(8), max_disk_storage |-> Known(9),
     max_streams |-> Known(10), max_consumers |-> Known(11),
     max_ack_pending |-> Known(12), max_memory_stream_bytes |-> Known(13),
     max_disk_stream_bytes |-> Known(14), max_bytes_required |-> Known(TRUE)]

\* one limit set at a time, and all of them set
LimitInputs(fieldOf, flags, all) ==
    UNION {{[NoLimits(fieldOf) EXCEPT ![a] = Known(v)] :
               v \in IF a \in flags THEN BOOLEAN ELSE LimitValues} :
           a \in DOMAIN fieldOf}
    \cup {all}

\* the limits an Update is given: one count below jwt.NoLimit or one flag, or all
LimitUpdateInputs(fieldOf, flags, all) ==
    UNION {{[NoLimits(fieldOf) EXCEPT ![a] = Known(v)] :
               v \in IF a \in flags THEN BOOLEAN ELSE {-2}} :
           a \in DOMAIN fieldOf}
    \cup {all}

WithLimits(cfg, l) == [cfg EXCEPT !.limits = l]

ConnectionTypeInputs == {Known(<<>>), Known(<<"WEBSOCKET", "MQTT">>)}

WithConnectionTypes(cfg, c) == [cfg EXCEPT !.allowed_connection_types = c]

NamedValidityInputs ==
    ({"n1"} \X ValidityInputs)
    \cup ({"n2"} \X {<<b, NoBound>> :
                        b \in {NoBound, <<Known(MaxDuration), NullV>>,
                               <<NullV, Known(LaterInstant)>>}})

UserConfig(n, sub, seed, b, v) ==
    [name |-> n, subject |-> sub, issuer_seed |-> seed, bearer |-> b,
     allow_pub |-> NullV, allow_sub |-> NullV, deny_pub |-> NullV, deny_sub |-> NullV,
     allow_pub_response |-> NullV, response_ttl |-> NullV,
     expires_in |-> v[1][1], expires_at |-> v[1][2],
     starts_in |-> v[2][1], starts_at |-> v[2][2],
     limits |-> NoLimits(UserLimitField), allowed_connection_types |-> NullV]

UserSubjectInputs == {<<>>, PublicKey(UserSeed), PublicKey(AccountSeed), BadKey("U")}

UserSeedInputs ==
    {<<>>, <<"S">>, AccountSeed, AccountSigningSeed, OperatorSeed, BadSeed("A")}

UserCreateConfigs ==
    {UserConfig("n1", sub, seed, FALSE, <<NoBound, NoBound>>) :
        sub \in UserSubjectInputs, seed \in UserSeedInputs}
    \cup {UserConfig(x[1], PublicKey(UserSeed), AccountSeed, FALSE, x[2]) :
        x \in NamedValidityInputs}
    \cup {UserConfig("n1", PublicKey(UserSeed), AccountSeed, TRUE, <<NoBound, NoBound>>)}
    \cup {WithPermissions(UserConfig("n1", PublicKey(UserSeed), AccountSeed, FALSE,
                                     <<NoBound, NoBound>>), p) : p \in PermissionInputs}
    \cup {WithLimits(UserConfig("n1", PublicKey(UserSeed), AccountSeed, FALSE,
                                <<NoBound, NoBound>>), l) :
              l \in LimitInputs(UserLimitField, {}, AllUserLimits)}
    \cup {WithConnectionTypes(UserConfig("n1", PublicKey(UserSeed), AccountSeed, FALSE,
                                         <<NoBound, NoBound>>), c) :
              c \in ConnectionTypeInputs}

\* subject and issuer_seed require replacement: an update keeps them
UserUpdateConfigs(prior) ==
    {UserConfig(x[1], prior.subject, prior.issuer_seed, FALSE, x[2]) :
        x \in NamedValidityInputs}
    \cup {UserConfig("n1", prior.subject, prior.issuer_seed, TRUE, <<NoBound, NoBound>>)}
    \cup {WithPermissions(UserConfig("n1", prior.subject, prior.issuer_seed, FALSE,
                                     <<NoBound, NoBound>>), p) : p \in PermissionInputs}
    \cup {WithLimits(UserConfig("n1", prior.subject, prior.issuer_seed, FALSE,
                                <<NoBound, NoBound>>), l) :
              l \in LimitInputs(UserLimitField, {}, AllUserLimits)}
    \cup {WithConnectionTypes(UserConfig("n1", prior.subject, prior.issuer_seed, FALSE,
                                         <<NoBound, NoBound>>), c) :
              c \in ConnectionTypeInputs}

OperatorConfig(n, sub, seed, sk, sys, v) ==
    [name |-> n, subject |-> sub, issuer_seed |-> seed, signing_keys |-> sk,
     system_account |-> sys,
     expires_in |-> v[1][1], expires_at |-> v[1][2],
     starts_in |-> v[2][1], starts_at |-> v[2][2]]

OperatorSubjectInputs ==
    {<<>>, PublicKey(OperatorSeed), PublicKey(OperatorSigningSeed),
     PublicKey(AccountSeed), BadKey("O")}

OperatorSeedInputs == {<<>>, <<"S">>, OperatorSeed, AccountSeed, BadSeed("O")}

OperatorSigningKeyInputs ==
    {NullV, Known(<<PublicKey(OperatorSigningSeed)>>),
     Known(<<PublicKey(OperatorSigningSeed), PublicKey(AccountSeed)>>)}

SystemAccountInputs == {NullV, Known(PublicKey(AccountSeed)), Known(PublicKey(UserSeed))}

\* signing keys and system account, one varied at a time
OperatorExtraInputs ==
    (OperatorSigningKeyInputs \X {NullV}) \cup ({NullV} \X SystemAccountInputs)

OperatorCreateConfigs ==
    {OperatorConfig("n1", sub, seed, NullV, NullV, <<NoBound, NoBound>>) :
        sub \in OperatorSubjectInputs, seed \in OperatorSeedInputs}
    \cup {OperatorConfig(x[1], PublicKey(OperatorSeed), OperatorSeed, NullV, NullV, x[2]) :
        x \in NamedValidityInputs}
    \cup {OperatorConfig("n1", PublicKey(OperatorSeed), OperatorSeed, x[1], x[2],
                         <<NoBound, NoBound>>) : x \in OperatorExtraInputs}

OperatorUpdateConfigs(prior) ==
    {OperatorConfig(x[1], prior.subject, prior.issuer_seed, NullV, NullV, x[2]) :
        x \in NamedValidityInputs}
    \cup {OperatorConfig("n1", prior.subject, prior.issuer_seed, x[1], x[2],
                         <<NoBound, NoBound>>) : x \in OperatorExtraInputs}

AccountConfig(n, sub, seed, sk, exp, start, ex, im) ==
    [name |-> n, subject |-> sub, issuer_seed |-> seed, signing_keys |-> sk,
     allow_pub |-> NullV, allow_sub |-> NullV, deny_pub |-> NullV, deny_sub |-> NullV,
     allow_pub_response |-> NullV, response_ttl |-> NullV,
     expiry |-> exp, start |-> start, limits |-> NoLimits(AccountLimitField),
     export |-> ex, import |-> im]

AccountSubjectInputs ==
    {<<>>, PublicKey(AccountSeed), PublicKey(UserSeed), BadKey("A")}

AccountSeedInputs ==
    {<<>>, <<"S">>, OperatorSeed, OperatorSigningSeed, AccountSeed, BadSeed("O")}

AccountSigningKeyInputs ==
    {NullV, Known(<<PublicKey(AccountSigningSeed)>>),
     Known(<<PublicKey(AccountSigningSeed), PublicKey(OperatorSeed)>>)}

RelativeInputs == {NullV} \cup {Known(d) : d \in Durations}

ExportInputs ==
    {NullV, Known(<<[subject |-> "a.>", type |-> "stream"]>>),
     Known(<<[subject |-> "a.>", type |-> "service"],
             [subject |-> "b.>", type |-> "other"]>>)}

ImportInputs ==
    {NullV,
     Known(<<[subject |-> "c.>", account |-> PublicKey(AccountSigningSeed),
              type |-> "service"]>>),
     Known(<<[subject |-> "c.>", account |-> PublicKey(AccountSigningSeed),
              type |-> "stream"],
             [subject |-> "d.>", account |-> PublicKey(AccountSigningSeed),
              type |-> "other"]>>),
     Known(<<[subject |-> "e.>", account |-> PublicKey(UserSeed),
              type |-> "stream"]>>)}

\* <<signing keys, exports, imports>>, one varied at a time
AccountExtraInputs ==
    {<<sk, NullV, NullV>> : sk \in AccountSigningKeyInputs}
    \cup {<<NullV, ex, NullV>> : ex \in ExportInputs}
    \cup {<<NullV, NullV, im>> : im \in ImportInputs}

AccountCreateConfigs ==
    {AccountConfig("n1", sub, seed, NullV, NullV, NullV, NullV, NullV) :
        sub \in AccountSubjectInputs, seed \in AccountSeedInputs}
    \cup {AccountConfig(n, PublicKey(AccountSeed), OperatorSeed, NullV, e, s, NullV, NullV) :
        n \in Names, e \in RelativeInputs, s \in RelativeInputs}
    \cup {AccountConfig("n1", PublicKey(AccountSeed), OperatorSeed, x[1], NullV, NullV,
                        x[2], x[3]) : x \in AccountExtraInputs}
    \cup {WithPermissions(AccountConfig("n1", PublicKey(AccountSeed), OperatorSeed, NullV,
                                        NullV, NullV, NullV, NullV), p) :
              p \in PermissionInputs}
    \cup {WithLimits(AccountConfig("n1", PublicKey(AccountSeed), OperatorSeed, NullV,
                                   NullV, NullV, NullV, NullV), l) :
              l \in LimitInputs(AccountLimitField, AccountFlagAttrs, AllAccountLimits)}

AccountUpdateConfigs(prior) ==
    {AccountConfig(n, prior.subject, prior.issuer_seed, NullV, e, s, NullV, NullV) :
        n \in Names, e \in RelativeInputs, s \in RelativeInputs}
    \cup {AccountConfig("n1", prior.subject, prior.issuer_seed, x[1], NullV, NullV,
                        x[2], x[3]) : x \in AccountExtraInputs}
    \cup {WithPermissions(AccountConfig("n1", prior.subject, prior.issuer_seed, NullV,
                                        NullV, NullV, NullV, NullV), p) :
              p \in PermissionInputs}
    \cup {WithLimits(AccountConfig("n1", prior.subject, prior.issuer_seed, NullV,
                                   NullV, NullV, NullV, NullV), l) :
              l \in LimitUpdateInputs(AccountLimitField, AccountFlagAttrs,
                                      AllAccountLimits)}

\* token and seed strings handed to the data source
CredsTokenInputs == {"T", "T2"}
CredsSeedInputs == {"S", "S2"}

\* the outcomes of the random source
RandomSources == {1, 2}

NKeyTypeInputs == {"operator", "account", "user", "server"}

\* import ids of a key
NKeyImportInputs == ValidSeeds \cup {<<>>, BadSeed("A")}

\* the seed attribute of an account key: absent, a seed, or something else
AccountKeySeedInputs ==
    {NullV, Known(AccountSeed), Known(OtherAccountSeed), Known(UserSeed),
     Known(<<"S">>), Known(BadSeed("A"))}

AccountKeyConfig(n, seed) == [name |-> n, seed |-> seed]

\* the configurations of an operator that generates its keys: the signing key,
\* the system account and its name, and the bounds, one varied at a time
KeyedOperatorConfig(n, key, sys, sysName, exp, start) ==
    [name |-> n, generate_signing_key |-> key, create_system_account |-> sys,
     system_account_name |-> sysName, expiry |-> exp, start |-> start]

FlagInputs == {NullV, Known(FALSE), Known(TRUE)}

KeyedOperatorConfigs ==
    {KeyedOperatorConfig("n1", key, sys, NullV, NullV, NullV) :
        key \in FlagInputs, sys \in FlagInputs}
    \cup {KeyedOperatorConfig("n2", NullV, Known(TRUE), sysName, NullV, NullV) :
              sysName \in {NullV, Known("n2")}}
    \cup {KeyedOperatorConfig("n1", NullV, NullV, NullV, e, st) :
              e \in RelativeInputs, st \in RelativeInputs}

-----------------------------------------------------------------------------
(* Requests *)

\* the outcome of one request: what was asked, when, and what came back
Response(op, cfg, r) ==
    [op |-> op, cfg |-> cfg, at |-> now, outcome |-> r.outcome,
     errors |-> r.errors, assembled |-> r.assembled]

\* a request ValidateConfig rejects never reaches the handler
Rejected(errors) ==
    [outcome |-> "error", errors |-> errors, assembled |-> FALSE, data |-> NoWrite]

\* the response state starts as the prior state (null for Create) and changes
\* only if the handler sets it
Apply(op, cfg, r) ==
    /\ resp' = Response(op, cfg, r)
    /\ state' = IF r.data = NoWrite THEN state ELSE r.data

UserCreate ==
    /\ rtype = "user"
    /\ state = NoState
    /\ \E cfg \in UserCreateConfigs :
          LET v == UserValidateConfig(cfg)
          IN  Apply("create", cfg,
                    IF v # {} THEN Rejected(v)
                    ELSE UserCreateHandler(UserPlan(cfg), now))
    /\ UNCHANGED <<rtype, now>>

UserUpdate ==
    /\ rtype = "user"
    /\ state # NoState
    /\ \E cfg \in UserUpdateConfigs(state) :
          LET v == UserValidateConfig(cfg)
          IN  Apply("update", cfg,
                    IF v # {} THEN Rejected(v)
                    ELSE UserUpdateHandler([UserPlan(cfg) EXCEPT !.id = state.id],
                                           state, now))
    /\ UNCHANGED <<rtype, now>>

OperatorCreate ==
    /\ rtype = "operator"
    /\ state = NoState
    /\ \E cfg \in OperatorCreateConfigs :
          LET v == OperatorValidateConfig(cfg)
          IN  Apply("create", cfg,
                    IF v # {} THEN Rejected(v)
                    ELSE OperatorCreateHandler(OperatorPlan(cfg), now))
    /\ UNCHANGED <<rtype, now>>

OperatorUpdate ==
    /\ rtype = "operator"
    /\ state # NoState
    /\ \E cfg \in OperatorUpdateConfigs(state) :
          LET v == OperatorValidateConfig(cfg)
          IN  Apply("update", cfg,
                    IF v # {} THEN Rejected(v)
                    ELSE OperatorUpdateHandler(
                             [OperatorPlan(cfg) EXCEPT !.id = state.id], state, now))
    /\ UNCHANGED <<rtype, now>>

AccountCreate ==
    /\ rtype = "account"
    /\ state = NoState
    /\ \E cfg \in AccountCreateConfigs :
          Apply("create", cfg, AccountCreateHandler(AccountPlan(cfg), now))
    /\ UNCHANGED <<rtype, now>>

AccountUpdate ==
    /\ rtype = "account"
    /\ state # NoState
    /\ \E cfg \in AccountUpdateConfigs(state) :
          Apply("update", cfg,
                AccountUpdateHandler([AccountPlan(cfg) EXCEPT !.id = state.id],
                                     state, now))
    /\ UNCHANGED <<rtype, now>>

\* the data source is read, and read again when its inputs change
CredsDataSourceRead ==
    /\ rtype = "creds"
    /\ \E jwt \in CredsTokenInputs, seed \in CredsSeedInputs :
          /\ state' = CredsRead(jwt, seed)
          /\ resp' = [op |-> "read", cfg |-> [jwt |-> jwt, seed |-> seed], at |-> now,
                      outcome |-> "ok", errors |-> {}, assembled |-> FALSE]
    /\ UNCHANGED <<rtype, now>>

\* Delete: nothing to clean up, the framework drops the state
NKeyCreate ==
    /\ rtype = "nkey"
    /\ state = NoState
    /\ \E type \in NKeyTypeInputs, rand \in RandomSources :
          LET cfg == [type |-> type]
              v == NKeyValidateConfig(cfg)
          IN  Apply("create", cfg,
                    IF v # {} THEN Rejected(v)
                    ELSE NKeyCreateHandler(NKeyPlan(cfg), rand))
    /\ UNCHANGED <<rtype, now>>

\* type requires replacement: an update carries the type in the state
NKeyUpdate ==
    /\ rtype = "nkey"
    /\ state # NoState
    /\ LET cfg == [type |-> state.type]
       IN  Apply("update", cfg, NKeyUpdateHandler(state, state))
    /\ UNCHANGED <<rtype, now>>

NKeyImport ==
    /\ rtype = "nkey"
    /\ state = NoState
    /\ \E seedStr \in NKeyImportInputs :
          Apply("import", [seed |-> seedStr], NKeyImportState(seedStr))
    /\ UNCHANGED <<rtype, now>>

AccountKeyCreate ==
    /\ rtype = "account_key"
    /\ state = NoState
    /\ \E n \in Names, seed \in AccountKeySeedInputs, rand \in RandomSources :
          LET cfg == AccountKeyConfig(n, seed)
          IN  Apply("create", cfg,
                    AccountKeyCreateHandler(AccountKeyPlan(cfg, NoState), rand))
    /\ UNCHANGED <<rtype, now>>

\* seed requires replacement: an update configures the seed Create was given or none
AccountKeyUpdate ==
    /\ rtype = "account_key"
    /\ state # NoState
    /\ \E n \in Names, seed \in {NullV, state.seed} :
          LET cfg == AccountKeyConfig(n, seed)
          IN  Apply("update", cfg,
                    AccountKeyUpdateHandler(AccountKeyPlan(cfg, state), state))
    /\ UNCHANGED <<rtype, now>>

KeyedOperatorCreate ==
    /\ rtype = "keyed_operator"
    /\ state = NoState
    /\ \E cfg \in KeyedOperatorConfigs, rand \in RandomSources :
          Apply("create", cfg,
                KeyedOperatorCreateHandler(KeyedOperatorPlan(cfg, NoState), rand, now))
    /\ UNCHANGED <<rtype, now>>

KeyedOperatorUpdate ==
    /\ rtype = "keyed_operator"
    /\ state # NoState
    /\ \E cfg \in KeyedOperatorConfigs, rand \in RandomSources :
          Apply("update", cfg,
                KeyedOperatorUpdateHandler(KeyedOperatorPlan(cfg, state), state, rand,
                                           now))
    /\ UNCHANGED <<rtype, now>>

Delete ==
    /\ rtype # "creds"
    /\ state # NoState
    /\ state' = NoState
    /\ resp' = [op |-> "delete", cfg |-> NoState, at |-> now, outcome |-> "ok",
                errors |-> {}, assembled |-> FALSE]
    /\ UNCHANGED <<rtype, now>>

\* the clock advances between requests
Tick ==
    /\ now < ClockStart + MaxTicks
    /\ now' = now + 1
    /\ UNCHANGED <<rtype, state, resp>>

-----------------------------------------------------------------------------
(* Specification *)

\* the resources of the provider, and its data source
ResourceTypes == {"user", "operator", "account", "creds"}

NoResponse ==
    [op |-> "none", cfg |-> NoState, at |-> 0, outcome |-> "ok",
     errors |-> {}, assembled |-> FALSE]

Init ==
    /\ rtype \in ResourceTypes
    /\ state = NoState
    /\ resp = NoResponse
    /\ now = ClockStart

Next ==
    \/ UserCreate
    \/ UserUpdate
    \/ OperatorCreate
    \/ OperatorUpdate
    \/ AccountCreate
    \/ AccountUpdate
    \/ CredsDataSourceRead
    \/ Delete
    \/ Tick

Spec == Init /\ [][Next]_vars

-----------------------------------------------------------------------------
(* Several principals side by side: two accounts that import from each other *)
(* and a user, each a resource instance of its own.  `state` holds the three *)
(* instance states; requests for them arrive in any order.                    *)

Principals == {"a", "b", "u"}

\* the subject of each principal and, for the accounts, the key of the other one
SubjectOf(who) ==
    CASE who = "a" -> PublicKey(AccountSeed)
      [] who = "b" -> PublicKey(OtherAccountSeed)
      [] OTHER -> PublicKey(UserSeed)

PeerOf(who) == IF who = "a" THEN "b" ELSE "a"

\* an import of a stream of the other account, by its public key
ImportFrom(key) ==
    Known(<<[subject |-> "c.>", account |-> key, type |-> "stream"]>>)

\* the configurations a principal is given: an account without and with the
\* import, a user without and with a rolling expiry
PrincipalConfigs(who) ==
    IF who = "u"
    THEN {UserConfig("n1", SubjectOf(who), AccountSeed, FALSE, <<e, NoBound>>) :
             e \in {NoBound, <<Known(MaxDuration), NullV>>}}
    ELSE {AccountConfig("n1", SubjectOf(who), OperatorSeed, NullV, NullV, NullV, NullV, im) :
             im \in {NullV, ImportFrom(SubjectOf(PeerOf(who)))}}

\* one request served on its own: the handler sees its plan, the prior state of
\* its own instance and the clock
RunAlone(who, op, cfg, prior, t) ==
    IF who = "u"
    THEN LET v == UserValidateConfig(cfg)
         IN  IF v # {} THEN Rejected(v)
             ELSE IF op = "create" THEN UserCreateHandler(UserPlan(cfg), t)
             ELSE UserUpdateHandler([UserPlan(cfg) EXCEPT !.id = prior.id], prior, t)
    ELSE IF op = "create" THEN AccountCreateHandler(AccountPlan(cfg), t)
         ELSE AccountUpdateHandler([AccountPlan(cfg) EXCEPT !.id = prior.id], prior, t)

\* variant: an account with an import is built only once the account it imports
\* from has a token
ServeNeedsExporter(who, op, cfg, st, t) ==
    IF who # "u" /\ ~IsNull(cfg.import) /\ st[PeerOf(who)] = NoState
    THEN Failure("Unknown import account", TRUE)
    ELSE RunAlone(who, op, cfg, st[who], t)

\* variant: a build picks up a name left behind by the build of another principal
ServeWithSharedName(who, op, cfg, st, t) ==
    RunAlone(who, op,
             IF st[PeerOf(who)] # NoState THEN [cfg EXCEPT !.name = "shared"] ELSE cfg,
             st[who], t)

\* a request served among the others: the resource types are empty structs, a
\* handler is handed nothing of the other instances
Serve(who, op, cfg, st, t) == RunAlone(who, op, cfg, st[who], t)

PrincipalRequest(who, op) ==
    /\ rtype = "principals"
    /\ \E cfg \in PrincipalConfigs(who) :
          LET r == Serve(who, op, cfg, state, now)
          IN  /\ resp' = [who |-> who, op |-> op, cfg |-> cfg, at |-> now,
                          outcome |-> r.outcome, errors |-> r.errors,
                          assembled |-> r.assembled]
              /\ state' = IF r.data = NoWrite THEN state
                          ELSE [state EXCEPT ![who] = r.data]
    /\ UNCHANGED <<rtype, now>>

PrincipalCreate ==
    \E who \in Principals : state[who] = NoState /\ PrincipalRequest(who, "create")

PrincipalUpdate ==
    \E who \in Principals : state[who] # NoState /\ PrincipalRequest(who, "update")

InitPrincipals ==
    /\ rtype = "principals"
    /\ state = [who \in Principals |-> NoState]
    /\ resp = [who |-> "none", op |-> "none", cfg |-> NoState, at |-> 0,
               outcome |-> "ok", errors |-> {}, assembled |-> FALSE]
    /\ now = ClockStart

NextPrincipals ==
    \/ PrincipalCreate
    \/ PrincipalUpdate
    \/ Tick

SpecPrincipals == InitPrincipals /\ [][NextPrincipals]_vars

-----------------------------------------------------------------------------
(* The key resources *)

KeyResourceTypes == {"nkey", "account_key"}

InitKeys ==
    /\ rtype \in KeyResourceTypes
    /\ state = NoState
    /\ resp = NoResponse
    /\ now = ClockStart

NextKeys ==
    \/ NKeyCreate
    \/ NKeyUpdate
    \/ NKeyImport
    \/ AccountKeyCreate
    \/ AccountKeyUpdate
    \/ Delete
    \/ Tick

SpecKeys == InitKeys /\ [][NextKeys]_vars

-----------------------------------------------------------------------------
(* The operator that generates its keys *)

InitKeyedOperator ==
    /\ rtype = "keyed_operator"
    /\ state = NoState
    /\ resp = NoResponse
    /\ now = ClockStart

NextKeyedOperator ==
    \/ KeyedOperatorCreate
    \/ KeyedOperatorUpdate
    \/ Delete
    \/ Tick

SpecKeyedOperator == InitKeyedOperator /\ [][NextKeyedOperator]_vars

-----------------------------------------------------------------------------
(* Every resource of the provider *)

InitResources == Init \/ InitKeys

NextResources == Next \/ NextKeys

SpecResources == InitResources /\ [][NextResources]_vars

-----------------------------------------------------------------------------
(* Properties *)

IsKnown(a) == ~IsNull(a) /\ ~IsUnknown(a)

\* the last request was a Create or an Update
Request == resp.op \in {"create", "update"}

\* the last request was a Create or an Update that succeeded: `state` is what it wrote
Built == Request /\ resp.outcome = "ok"

\* the token in the state
Token == IF rtype = "user" THEN state.jwt_sensitive.v ELSE state.jwt.v

\* the roles whose bounds have a relative and an absolute form
HasValidityForms == rtype \in {"user", "operator"}

BothForms(rel, abs) == IsKnown(rel) /\ IsKnown(abs)

\* C1: a user or operator Create / Update whose input gives both the relative and
\* the absolute form of one bound is rejected with the conflicting-bounds error of
\* that bound, and no claims are assembled from it.
C1_ConflictingBoundsRejected ==
    (HasValidityForms /\ Request) =>
        /\ BothForms(resp.cfg.expires_in, resp.cfg.expires_at) =>
              /\ resp.outcome = "error"
              /\ "Conflicting Expiry Configuration" \in resp.errors
              /\ ~resp.assembled
        /\ BothForms(resp.cfg.starts_in, resp.cfg.starts_at) =>
              /\ resp.outcome = "error"
              /\ "Conflicting Start Configuration" \in resp.errors
              /\ ~resp.assembled

C1_Witness ==
    /\ rtype = "operator"
    /\ resp.op = "update"
    /\ BothForms(resp.cfg.starts_in, resp.cfg.starts_at)
    /\ ~BothForms(resp.cfg.expires_in, resp.cfg.expires_at)
    /\ resp.outcome = "error"

\* C2: when a user or operator is configured with an absolute bound, the token of
\* every successful Create / Update carries that instant (to the second) as its
\* expiry / not-before, and the stored expires_at / starts_at is the configured value.
C2_AbsoluteBoundCarried ==
    (HasValidityForms /\ Built) =>
        /\ (IsNull(resp.cfg.expires_in) /\ IsKnown(resp.cfg.expires_at)) =>
              /\ state.expires_at = resp.cfg.expires_at
              /\ HasBound(Token.exp)
              /\ Token.exp = Unix(ParseRFC3339(resp.cfg.expires_at.v))
        /\ (IsNull(resp.cfg.starts_in) /\ IsKnown(resp.cfg.starts_at)) =>
              /\ state.starts_at = resp.cfg.starts_at
              /\ HasBound(Token.nbf)
              /\ Token.nbf = Unix(ParseRFC3339(resp.cfg.starts_at.v))

\* a non-zero relative duration
Rolling(rel) == IsKnown(rel) /\ rel.v # 0

\* a step in which an Update rebuilds, at another instant, a resource last built
\* with the same non-zero relative duration
RebuildsExpiry ==
    /\ Built /\ Built' /\ resp'.op = "update" /\ resp'.at # resp.at
    /\ Rolling(resp.cfg.expires_in) /\ resp'.cfg.expires_in = resp.cfg.expires_in

RebuildsStart ==
    /\ Built /\ Built' /\ resp'.op = "update" /\ resp'.at # resp.at
    /\ Rolling(resp.cfg.starts_in) /\ resp'.cfg.starts_in = resp.cfg.starts_in

Absent(rel, abs) == IsNull(rel) /\ IsNull(abs)
ZeroDuration(rel) == IsKnown(rel) /\ rel.v = 0

\* C4: a zero relative duration and an absent bound give the same result: the token
\* has no expiry / not-before on that side and the stored absolute bound is null.
C4_ZeroDurationIsNoBound ==
    Built =>
        IF HasValidityForms
        THEN /\ (ZeroDuration(resp.cfg.expires_in)
                    \/ Absent(resp.cfg.expires_in, resp.cfg.expires_at)) =>
                   ~HasBound(Token.exp) /\ state.expires_at = NullV
             /\ (ZeroDuration(resp.cfg.starts_in)
                    \/ Absent(resp.cfg.starts_in, resp.cfg.starts_at)) =>
                   ~HasBound(Token.nbf) /\ state.starts_at = NullV
        ELSE /\ (ZeroDuration(resp.cfg.expiry) \/ IsNull(resp.cfg.expiry)) =>
                   ~HasBound(Token.exp)
             /\ (ZeroDuration(resp.cfg.start) \/ IsNull(resp.cfg.start)) =>
                   ~HasBound(Token.nbf)

C4_Witness ==
    /\ rtype = "operator"
    /\ Built
    /\ ZeroDuration(resp.cfg.expires_in)
    /\ Absent(resp.cfg.starts_in, resp.cfg.starts_at)
    /\ state.expires_at = NullV
    /\ ~HasBound(Token.exp)

\* C5: after every successful Create / Update of a user or operator the stored
\* expires_at / starts_at is null exactly when the token has no bound on that side,
\* and otherwise is, to the second, the bound of the token.
C5_StoredBoundIsTokenBound ==
    (HasValidityForms /\ Built) =>
        /\ IsNull(state.expires_at) <=> ~HasBound(Token.exp)
        /\ IsKnown(state.expires_at) =>
              Unix(ParseRFC3339(state.expires_at.v)) = Token.exp
        /\ IsNull(state.starts_at) <=> ~HasBound(Token.nbf)
        /\ IsKnown(state.starts_at) =>
              Unix(ParseRFC3339(state.starts_at.v)) = Token.nbf

\* the prefix of the role's public keys, and of the keys that sign its tokens
RolePrefix == CASE rtype = "user" -> "U" [] rtype = "operator" -> "O" [] OTHER -> "A"
SignerPrefix == IF rtype = "user" THEN "A" ELSE "O"

\* the conditions on the subject and on the signing seed
RoleOk(cfg) ==
    /\ HasPrefix(cfg.subject, <<RolePrefix>>)
    /\ HasPrefix(cfg.issuer_seed, <<"S", SignerPrefix>>)
    /\ FromSeedOk(cfg.issuer_seed)
    /\ HasPrefix(PublicKey(cfg.issuer_seed), <<SignerPrefix>>)

\* the diagnostics of the role checks
RoleErrors ==
    {"Invalid user public key", "Invalid operator public key",
     "Invalid account public key", "Invalid issuer seed", "Invalid operator seed",
     "Failed to parse issuer seed", "Failed to parse operator seed"}

\* C6: Create fails, before any claim is assembled, unless the subject carries the
\* role's prefix and the signing seed carries the signer role's seed prefix and
\* derives a key of that role; an input that meets the conditions passes the role
\* checks.
C6_RoleValidationBeforeAssembly ==
    resp.op = "create" =>
        /\ ~RoleOk(resp.cfg) => resp.outcome # "ok" /\ ~resp.assembled
        /\ RoleOk(resp.cfg) => resp.errors \cap RoleErrors = {} /\ resp.outcome # "panic"

\* a user Create signed with an operator seed is turned down
C6_Witness ==
    /\ rtype = "user"
    /\ resp.op = "create"
    /\ HasPrefix(resp.cfg.subject, <<"U">>)
    /\ resp.cfg.issuer_seed = OperatorSeed
    /\ resp.outcome = "error"
    /\ ~resp.assembled
    /\ state = NoState

\* C7: a Create or Update that does not succeed writes nothing: after a failed
\* Create there is no state, and a failed Update leaves the state, the token in it
\* included, as it was.
C7_ErrorWritesNothing ==
    /\ []((resp.op = "create" /\ resp.outcome # "ok") => state = NoState)
    /\ [][resp'.outcome # "ok" => state' = state]_vars

\* an Update fails after the claims were assembled, the earlier token is in place
C7_Witness ==
    /\ rtype = "account"
    /\ resp.op = "update"
    /\ resp.outcome = "error"
    /\ resp.assembled
    /\ state # NoState
    /\ IsKnown(state.jwt)

\* C8: for every subject and issuer seed a build ends with a token or with a
\* diagnostic; it never terminates abnormally.
C8_NoAbnormalTermination ==
    Request => resp.outcome \in {"ok", "error"}

\* C9: a token that was built has as issuer the public key derived from the signing
\* seed and as subject the supplied subject; an account token is issued by an
\* operator key to an account key.
C9_IssuerAndSubject ==
    Built =>
        /\ Token.iss = PublicKey(resp.cfg.issuer_seed)
        /\ Token.sub = resp.cfg.subject
        /\ rtype = "account" =>
              HasPrefix(Token.iss, <<"O">>) /\ HasPrefix(Token.sub, <<"A">>)

C9_Witness ==
    /\ rtype = "account"
    /\ Built
    /\ resp.cfg.issuer_seed = OperatorSigningSeed
    /\ Token.iss = PublicKey(OperatorSigningSeed)
    /\ Token.sub = PublicKey(AccountSeed)

\* C10: a user token signed with the delegated signing key of an account has that
\* key as issuer and the account's primary key as issuer account.
C10_IssuerAccountIsPrimaryKey ==
    (rtype = "user" /\ Built /\ resp.cfg.issuer_seed = AccountSigningSeed) =>
        /\ Token.iss = PublicKey(AccountSigningSeed)
        /\ Token.issuer_account = PublicKey(AccountSeed)

\* C11: a user build whose signing seed is a delegated account key, with no
\* account back-reference supplied, is rejected with a missing-back-reference error.
C11_MissingBackReferenceRejected ==
    (rtype = "user" /\ Request /\ resp.cfg.issuer_seed = AccountSigningSeed) =>
        /\ resp.outcome = "error"
        /\ "Missing issuer_account" \in resp.errors

\* C12: an operator token is self-signed: Create succeeds only if the key derived
\* from the issuer seed is the subject, and in every state the token's issuer is
\* its subject.
C12_OperatorSelfSigned ==
    rtype = "operator" =>
        /\ (resp.op = "create" /\ resp.outcome = "ok") =>
              PublicKey(resp.cfg.issuer_seed) = resp.cfg.subject
        /\ state # NoState =>
              /\ Token.iss = Token.sub
              /\ Token.sub = state.subject
              /\ Token.iss = PublicKey(state.issuer_seed)

\* an Update of an operator at a later instant
C12_Witness ==
    /\ rtype = "operator"
    /\ Built
    /\ resp.op = "update"
    /\ resp.at > ClockStart
    /\ Token.iss = Token.sub

\* the declared signing keys of the last request, as a sequence
DeclaredSigningKeys ==
    IF IsKnown(resp.cfg.signing_keys) THEN resp.cfg.signing_keys.v ELSE <<>>

\* the signing keys of the token, as a set
TokenSigningKeys ==
    IF rtype = "operator"
    THEN {Token.signing_keys[i] : i \in 1..Len(Token.signing_keys)}
    ELSE Token.signing_keys

\* C13: if an entry of the declared signing-key list of an operator / account lacks
\* the role's prefix the build fails and writes nothing; otherwise every declared
\* entry is in the token's signing keys, and nothing else is.
C13_SigningKeysChecked ==
    (rtype \in {"operator", "account"} /\ Request) =>
        /\ (\E i \in 1..Len(DeclaredSigningKeys) :
               ~HasPrefix(DeclaredSigningKeys[i], <<RolePrefix>>)) =>
              resp.outcome = "error"
        /\ resp.outcome = "ok" =>
              TokenSigningKeys =
                  {DeclaredSigningKeys[i] : i \in 1..Len(DeclaredSigningKeys)}

\* an account Update that declares a key of another role after a valid one
C13_Witness ==
    /\ rtype = "account"
    /\ resp.op = "update"
    /\ Len(DeclaredSigningKeys) = 2
    /\ HasPrefix(DeclaredSigningKeys[1], <<"A">>)
    /\ ~HasPrefix(DeclaredSigningKeys[2], <<"A">>)
    /\ "Invalid signing key" \in resp.errors
    /\ state # NoState
    /\ Token.signing_keys = {}

\* C14: no account token is built with an import whose source account is not an
\* account public key.
C14_ImportAccountIsAccountKey ==
    (rtype = "account" /\ Built) =>
        \A i \in 1..Len(Token.imports) : HasPrefix(Token.imports[i].account, <<"A">>)

\* the declarations of the last request, as sequences
DeclaredExports == IF IsKnown(resp.cfg.export) THEN resp.cfg.export.v ELSE <<>>
DeclaredImports == IF IsKnown(resp.cfg.import) THEN resp.cfg.import.v ELSE <<>>

Kinds == {"stream", "service"}

\* C15: an export or import declaration of a kind other than stream / service
\* aborts the account build with the error of that declaration, however many valid
\* declarations precede it; a token holds declarations of these two kinds only.
C15_KindStreamOrService ==
    (rtype = "account" /\ Request) =>
        /\ (\E i \in 1..Len(DeclaredExports) : DeclaredExports[i].type \notin Kinds) =>
              resp.outcome = "error" /\ resp.errors = {"Invalid export type"}
        /\ (\E i \in 1..Len(DeclaredImports) : DeclaredImports[i].type \notin Kinds) =>
              resp.outcome = "error" /\ resp.errors = {"Invalid import type"}
        /\ resp.outcome = "ok" =>
              /\ \A i \in 1..Len(Token.exports) : Token.exports[i].type \in Kinds
              /\ \A i \in 1..Len(Token.imports) : Token.imports[i].type \in Kinds

\* a valid import followed by one of another kind
C15_Witness ==
    /\ rtype = "account"
    /\ resp.op = "create"
    /\ Len(DeclaredImports) = 2
    /\ DeclaredImports[1].type \in Kinds
    /\ DeclaredImports[2].type \notin Kinds
    /\ resp.errors = {"Invalid import type"}
    /\ state = NoState

\* the list an attribute of the last request gives
Listed(a) == IF IsKnown(a) THEN a.v ELSE <<>>

\* C18: the token of a user / account carries each allow / deny publish / subscribe
\* list of the input with the same elements in the same order, repeated elements
\* kept, after Create and after Update.
C18_PermissionListsVerbatim ==
    (rtype \in {"user", "account"} /\ Built) =>
        /\ Token.pub_allow = Listed(resp.cfg.allow_pub)
        /\ Token.sub_allow = Listed(resp.cfg.allow_sub)
        /\ Token.pub_deny = Listed(resp.cfg.deny_pub)
        /\ Token.sub_deny = Listed(resp.cfg.deny_sub)

\* an Update with a list that repeats an element and is not sorted
C18_Witness ==
    /\ rtype = "user"
    /\ Built
    /\ resp.op = "update"
    /\ Listed(resp.cfg.allow_pub) = <<"b", "a", "b">>
    /\ Token.pub_allow = <<"b", "a", "b">>
    /\ Token.sub_deny = <<"d", "c">>

\* the configured maximum reply count is above zero
RepliesAllowed(cfg) ==
    IsKnown(cfg.allow_pub_response) /\ cfg.allow_pub_response.v > 0

\* C19: the token has a response permission if and only if the configured maximum
\* reply count is above zero; it then carries the count and the time limit, and
\* without it the time limit leaves no trace in the token.
C19_ResponseOnlyWithReplies ==
    (rtype \in {"user", "account"} /\ Built) =>
        IF RepliesAllowed(resp.cfg)
        THEN Token.resp_perm =
                 [k |-> "resp", max_msgs |-> resp.cfg.allow_pub_response.v,
                  expires |-> IF IsKnown(resp.cfg.response_ttl)
                              THEN resp.cfg.response_ttl.v ELSE 0]
        ELSE Token.resp_perm = NoResponsePermission

\* a time limit configured with a zero count
C19_Witness ==
    /\ rtype = "account"
    /\ Built
    /\ resp.cfg.allow_pub_response = Known(0)
    /\ IsKnown(resp.cfg.response_ttl)
    /\ Token.resp_perm = NoResponsePermission

\* C20: the credential blob built from a token T and a seed S consists of the
\* lines BEGIN NATS USER JWT, T, END NATS USER JWT, an empty line, BEGIN USER NKEY
\* SEED, S, END USER NKEY SEED, and of nothing else.
C20_CredsBlobExact ==
    (rtype = "creds" /\ state # NoState) =>
        state.creds.v =
            <<"-----BEGIN NATS USER JWT-----",
              state.jwt.v,
              "------END NATS USER JWT------",
              "",
              "-----BEGIN USER NKEY SEED-----",
              state.seed.v,
              "------END USER NKEY SEED------">>

\* the token of a principal
TokenOf(who) ==
    IF who = "u" THEN state[who].jwt_sensitive.v ELSE state[who].jwt.v

\* the accounts a token imports from
ImportedAccounts(who) ==
    {TokenOf(who).imports[i].account : i \in 1..Len(TokenOf(who).imports)}

\* C16: two accounts that import from each other by public key are built in any
\* order: a build with the import succeeds whether or not the other account has a
\* token, and the token it writes lists the other account's key in its imports.
C16_MutualImportsAnyOrder ==
    \A who \in {"a", "b"} :
        /\ (resp.who = who /\ ~IsNull(resp.cfg.import)) =>
              /\ resp.outcome = "ok"
              /\ SubjectOf(PeerOf(who)) \in ImportedAccounts(who)
        /\ (state[who] # NoState /\ ~IsNull(state[who].import)) =>
              ImportedAccounts(who) = {SubjectOf(PeerOf(who))}

\* account a is built with its import while account b has no token
C16_Witness ==
    /\ rtype = "principals"
    /\ resp.who = "a"
    /\ resp.op = "create"
    /\ resp.outcome = "ok"
    /\ state["b"] = NoState
    /\ ImportedAccounts("a") = {PublicKey(OtherAccountSeed)}

-----------------------------------------------------------------------------
(* Token attributes of a user *)

\* the token in the state is the one the last request built
TokenOfRequest ==
    /\ Token.name = resp.cfg.name
    /\ Token.sub = resp.cfg.subject
    /\ Token.bearer = resp.cfg.bearer

\* C21: after every successful Create or Update of a user, jwt_sensitive holds the
\* token just built; jwt holds the same token exactly when bearer is false and is
\* null when bearer is true, also after an Update that turns bearer on.
C21_JwtOnlyForNonBearer ==
    /\ [](rtype = "user" /\ Built =>
            /\ IsKnown(state.jwt_sensitive)
            /\ TokenOfRequest
            /\ ~resp.cfg.bearer => state.jwt = state.jwt_sensitive
            /\ resp.cfg.bearer => IsNull(state.jwt))
    /\ [][(rtype = "user" /\ state # NoState /\ IsKnown(state.jwt)
            /\ resp' # resp /\ Built' /\ resp'.op = "update" /\ resp'.cfg.bearer) =>
              /\ IsNull(state'.jwt)
              /\ state'.jwt_sensitive.v.bearer]_vars

\* a user that has a bearer token after an Update
C21_Witness ==
    /\ rtype = "user"
    /\ Built
    /\ resp.op = "update"
    /\ resp.cfg.bearer
    /\ IsNull(state.jwt)
    /\ Token.bearer

-----------------------------------------------------------------------------
(* Limits in the token *)

HasLimits == rtype \in {"user", "account"}

LimitFieldOf == IF rtype = "user" THEN UserLimitField ELSE AccountLimitField

LimitDefaults == IF rtype = "user" THEN DefaultUserLimits ELSE DefaultAccountLimits

\* what the handler of the last request returns for cfg with the state the
\* request found (an Update reads only the subject and the seed of that state,
\* which it writes back unchanged)
Rerun(cfg) ==
    CASE rtype = "user" /\ resp.op = "create" ->
             UserCreateHandler(UserPlan(cfg), resp.at)
      [] rtype = "user" /\ resp.op = "update" ->
             UserUpdateHandler(UserPlan(cfg), state, resp.at)
      [] rtype = "account" /\ resp.op = "create" ->
             AccountCreateHandler(AccountPlan(cfg), resp.at)
      [] rtype = "account" /\ resp.op = "update" ->
             AccountUpdateHandler(AccountPlan(cfg), state, resp.at)

TokenIn(data) == IF rtype = "user" THEN data.jwt_sensitive.v ELSE data.jwt.v

\* C22: every limit that is supplied is in the token unchanged, whatever its value;
\* a limit that is not supplied leaves the default of its field; and the limits
\* change nothing else: but for the limits, the token and the state are those of
\* the same request without limits.
C22_LimitsPassThrough ==
    (HasLimits /\ Built) =>
        /\ \A a \in DOMAIN LimitFieldOf :
              Token.limits[LimitFieldOf[a]] =
                  IF IsNull(resp.cfg.limits[a]) THEN LimitDefaults[LimitFieldOf[a]]
                  ELSE resp.cfg.limits[a].v
        /\ LET plain == Rerun([resp.cfg EXCEPT !.limits = NoLimits(LimitFieldOf)])
           IN  /\ plain.outcome = "ok"
               /\ [TokenIn(plain.data) EXCEPT !.limits = Token.limits] = Token
               /\ \A f \in DOMAIN state \ {"limits", "jwt", "jwt_sensitive"} :
                     plain.data[f] = state[f]

\* an account with a limit of zero and one below jwt.NoLimit, after an Update
C22_Witness ==
    /\ rtype = "account"
    /\ Built
    /\ resp.op = "update"
    /\ resp.cfg.limits.max_connections = Known(-2)
    /\ Token.limits.Conn = -2
    /\ Token.limits.Subs = -1

-----------------------------------------------------------------------------
(* Keys *)

IsKey == rtype \in KeyResourceTypes /\ state # NoState

\* C23: a key generated for type operator, account or user is stored only with a
\* public key of prefix O, A or U respectively, and then its seed has prefix SO,
\* SA or SU; a type outside these three never produces a stored key.
C23_KeyPrefixMatchesType ==
    /\ (rtype = "nkey" /\ state # NoState) =>
          /\ state.type \in {"operator", "account", "user"}
          /\ HasPrefix(state.public_key.v, <<ExpectedPrefix(state.type)>>)
          /\ HasPrefix(state.seed.v, <<"S", ExpectedPrefix(state.type)>>)
          /\ state.id = state.public_key
    /\ (rtype = "nkey" /\ resp.op = "create"
          /\ resp.cfg.type \notin {"operator", "account", "user"}) =>
          /\ resp.outcome = "error"
          /\ state = NoState

\* a user key was generated
C23_Witness ==
    /\ rtype = "nkey"
    /\ Built
    /\ resp.op = "create"
    /\ resp.cfg.type = "user"
    /\ state.seed = Known(UserSeed)
    /\ state.public_key = Known(PublicKey(UserSeed))

\* C24: importing a key from its seed yields the id, public key, seed and type that
\* creating the key produced, and an account key created from a stored seed has
\* the stored id, public key and seed: a seed always derives the same public key.
C24_ImportReproducesKey ==
    /\ (rtype = "nkey" /\ state # NoState) =>
          LET r == NKeyImportState(state.seed.v)
          IN  /\ r.outcome = "ok"
              /\ r.data = state
    /\ (rtype = "account_key" /\ state # NoState) =>
          \A rand \in RandomSources :
              LET cfg == AccountKeyConfig(state.name, state.seed)
                  r == AccountKeyCreateHandler(AccountKeyPlan(cfg, NoState), rand)
              IN  /\ r.outcome = "ok"
                  /\ r.data = state
    /\ IsKey => state.public_key.v = PublicKey(state.seed.v)

\* the seed of a generated account key was imported
C24_Witness ==
    /\ rtype = "nkey"
    /\ resp.op = "import"
    /\ resp.outcome = "ok"
    /\ resp.cfg.seed = OtherAccountSeed
    /\ state = NKeyCreateHandler(NKeyPlan([type |-> "account"]), 2).data

-----------------------------------------------------------------------------
(* What an Update keeps *)

HasToken == rtype \in {"user", "operator", "account"} /\ state # NoState

\* C25: in every state reached by a Create and any number of Updates, the subject
\* of the stored token has the prefix of the resource's role and its issuer the
\* prefix of the signer's role; they are the stored subject and the key of the
\* stored seed, which an Update reads from the state and does not examine.
C25_RoleHoldsAcrossUpdates ==
    HasToken =>
        /\ HasPrefix(Token.sub, <<RolePrefix>>)
        /\ HasPrefix(Token.iss, <<SignerPrefix>>)
        /\ Token.sub = state.subject
        /\ Token.iss = PublicKey(state.issuer_seed)

\* an account rebuilt by an Update, a second after the clock start
C25_Witness ==
    /\ rtype = "account"
    /\ Built
    /\ resp.op = "update"
    /\ Unix(resp.at) > Unix(ClockStart)
    /\ Token.sub = PublicKey(AccountSeed)
    /\ Token.iss = PublicKey(OperatorSigningSeed)

\* the attributes an Update is to keep
Identity(st) ==
    IF rtype \in KeyResourceTypes
    THEN <<st.id, st.public_key, st.seed>>
    ELSE <<st.id, st.public_key, st.subject, st.issuer_seed>>

\* C26: an Update changes none of id, public_key, subject, issuer_seed and the seed
\* of a stored key, so that they stay as Create stored them; and in every state the
\* id is the public key, which is the subject.
C26_UpdateKeepsIdentity ==
    /\ [](HasToken => /\ state.id = state.public_key
                      /\ state.public_key = Known(state.subject))
    /\ [](IsKey => /\ state.id = state.public_key
                   /\ IsKnown(state.seed))
    /\ [][(rtype # "creds" /\ state # NoState /\ state' # NoState) =>
              Identity(state') = Identity(state)]_vars

\* an account key that an Update renamed
C26_Witness ==
    /\ rtype = "account_key"
    /\ Built
    /\ resp.op = "update"
    /\ state.name = "n2"
    /\ state.seed = Known(OtherAccountSeed)
    /\ state.id = Known(PublicKey(OtherAccountSeed))

\* ValidateConfig lets cfg pass
Validated(cfg) ==
    CASE rtype = "user" -> UserValidateConfig(cfg) = {}
      [] rtype = "operator" -> OperatorValidateConfig(cfg) = {}
      [] rtype = "account" -> TRUE

\* what Create returns for cfg at the instant of the last request
CreateOf(cfg) ==
    CASE rtype = "user" -> UserCreateHandler(UserPlan(cfg), resp.at)
      [] rtype = "operator" -> OperatorCreateHandler(OperatorPlan(cfg), resp.at)
      [] rtype = "account" -> AccountCreateHandler(AccountPlan(cfg), resp.at)

-----------------------------------------------------------------------------
(* The system account of an operator *)

\* the last step was a successful Update of an operator that generates its keys
KeyedUpdate ==
    /\ rtype = "keyed_operator"
    /\ state # NoState
    /\ resp' # resp
    /\ resp'.op = "update"
    /\ resp'.outcome = "ok"

\* the Update asked for a system account
AsksSystemAccount(cfg) == cfg.create_system_account = Known(TRUE)

\* C28: when an operator that owns a generated system account is updated with
\* create_system_account false, the stored system_account, system_account_jwt and
\* system_account_seed become null, as the new operator token names no system
\* account.
C28_SystemAccountCleared ==
    [][(KeyedUpdate /\ IsKnown(state.system_account)
            /\ ~AsksSystemAccount(resp'.cfg)) =>
          /\ state'.jwt.v.system_account = <<>>
          /\ IsNull(state'.system_account)
          /\ IsNull(state'.system_account_jwt)
          /\ IsNull(state'.system_account_seed)]_vars

\* C29: when an operator that has a generated system account is updated with
\* create_system_account still true, the system account key and seed written to
\* the state are the known values of before and the operator token names that
\* account; a system account is generated only when the state has none.
C29_SystemAccountKept ==
    [][(KeyedUpdate /\ AsksSystemAccount(resp'.cfg)) =>
          /\ IsKnown(state.system_account) =>
                /\ state'.system_account = state.system_account
                /\ state'.system_account_seed = state.system_account_seed
                /\ state'.jwt.v.system_account = state.system_account.v
          /\ IsNull(state.system_account) =>
                /\ IsKnown(state'.system_account)
                /\ state'.system_account_seed.v \in {CreatePair("A", r) : r \in RandomSources}
                /\ state'.jwt.v.system_account = state'.system_account.v]_vars

-----------------------------------------------------------------------------
(* The validity window *)

\* C30: a built token that carries both a not-before and an expiry has its
\* not-before no later than its expiry: an input whose validity window would be
\* empty is rejected.
C30_WindowNotEmpty ==
    (rtype \in {"user", "operator", "account"} /\ Built
        /\ HasBound(Token.nbf) /\ HasBound(Token.exp)) =>
        Token.nbf <= Token.exp

====
